---- MODULE Spec2Model ----
(***************************************************************************)
(* Model of the link summarizer agent: the Telegram handler's URL          *)
(* detection (bot.py), the LangGraph pipeline of agent.py (init, router,   *)
(* extractor nodes, summarizer, conditional edges), the tools the          *)
(* extractor nodes call, and run_agent's rendering of the final state.     *)
(*                                                                         *)
(* Strings are sequences of pieces.  A piece is either a literal fragment  *)
(* of the source (a message prefix such as "LLM Router failed: "), a unit  *)
(* of external text ("x"), or a whitespace character (" " or "\n").        *)
(* startswith, strip, split, truthiness and concatenation are computed on  *)
(* these sequences.                                                        *)
(***************************************************************************)
EXTENDS Integers, Sequences, FiniteSets, TLC

\* ---------------------------------------------------------------- bounds
MaxMsgLen == 3

\* ------------------------------------------------------- string helpers
None == <<"<None>">>
NoneDecision == "<None>"
WS == {" ", "\n"}

\* Pieces whose literal text begins with the six characters "Error:".
ErrorPrefixed ==
  { "Error: An unexpected error occurred while getting content from the URL. ",
    "Error: An unexpected error occurred while calling the Twitter tool. ",
    "Error: An unexpected error occurred while calling the LinkedIn tool. ",
    "Error: An unexpected error occurred while calling the YouTube tool function. ",
    "Error: An unexpected error occurred while processing the PDF. ",
    "Error: URL does not point to a PDF file (Content-Type: ",
    "Error: Tavily client is not available. Check API Key.",
    "Error: Query is required for search mode.",
    "Error: Tavily extract found no information.",
    "Error: Tavily search found no information.",
    "Error: Tavily extract encountered an error. ",
    "Error: Tavily search encountered an error. ",
    "Error: Unexpected response format from Tavily tool.",
    "Error: Tavily found no information for this LinkedIn URL.",
    "Error: Tavily returned results, but no extractable content was found.",
    "Error: Failed to process LinkedIn URL using Tavily tool. ",
    "Error: URL does not appear to be a valid LinkedIn post URL.",
    "Error: X_API_KEY or X-API-KEY not found in environment variables.",
    "Error: Could not extract Tweet ID from URL: ",
    "Error: Failed to fetch main tweet 1. API Status: ",
    "Error: Network or API error fetching main tweet 1: ",
    "Error: Unexpected error processing main tweet response: ",
    "Error: No tweet data could be formatted for tweet ID 1.",
    "Error: Failed to capture screenshot (empty bytes)",
    "Error: Screenshot failed: ",
    "Error: Timeout occurred while loading ",
    "Error: An error occurred during Selenium processing: ",
    "Error: Could not extract text content from page (all methods failed)",
    "Error: Failed to extract text via JavaScript: ",
    "Error: No text content could be extracted from the page",
    "Error: ",
    "Error: The provided link type is not supported or no URL was found.",
    "Error: Agent finished without extracting content.",
    "Error: Agent finished. Content was extracted, but no summary was generated and no specific error was reported.",
    "Error: Agent workflow did not produce a final state.",
    "Error: An unexpected error occurred in the agent: " }

\* bool(s) of an Optional[str]
Truthy(s) == s # None /\ s # <<>>

\* s.startswith("Error:")
StartsWithError(s) == s # None /\ Len(s) > 0 /\ s[1] \in ErrorPrefixed

\* s.lower().startswith("error:"): no piece of the program begins with
\* "error:" in another letter case.
LowerStartsWithError(s) == s # None /\ Len(s) > 0 /\ s[1] \in ErrorPrefixed

RECURSIVE LStrip(_)
LStrip(s) == IF s = <<>> THEN <<>>
             ELSE IF s[1] \in WS THEN LStrip(Tail(s)) ELSE s

RECURSIVE RStrip(_)
RStrip(s) == IF s = <<>> THEN <<>>
             ELSE IF s[Len(s)] \in WS THEN RStrip(SubSeq(s, 1, Len(s) - 1)) ELSE s

\* s.strip()
Strip(s) == RStrip(LStrip(s))

\* s.strip() == ""
IsBlank(s) == Strip(s) = <<>>

\* dict.get(k, default)
Get(d, k, default) == IF k \in DOMAIN d THEN d[k] ELSE default

\* LangGraph merges a node's returned partial dict into the state channels.
Merge(st, upd) == upd @@ st

\* The text of an exception, str(e).
ExcText == <<"exc">>

\* ------------------------------------------------------------- messages
Scheme == "https://"
MsgPieces == {Scheme, "http", "x", " "}

RECURSIVE SeqsUpTo(_, _)
SeqsUpTo(S, n) == IF n = 0 THEN {<<>>}
                  ELSE LET shorter == SeqsUpTo(S, n - 1)
                       IN shorter \cup {Append(s, p) : s \in {t \in shorter : Len(t) = n - 1}, p \in S}

Messages == SeqsUpTo(MsgPieces, MaxMsgLen)

\* Messages whose URL has a path that ends in ".pdf".
PdfUrlMessages == {<<Scheme, "x", ".pdf">>, <<"x", " ", Scheme, "x", ".pdf">>}

\* Index of the last piece of the maximal run of non-whitespace pieces
\* starting at i.
RECURSIVE RunEnd(_, _)
RunEnd(s, i) == IF i < Len(s) /\ s[i + 1] \notin WS THEN RunEnd(s, i + 1) ELSE i

\* re.search(r"(https?:\/\/[^\s]+)", text): the leftmost scheme that is
\* followed by at least one non-whitespace character, extended greedily.
URLRegexSearch(text) ==
  LET starts == {i \in 1..Len(text) : text[i] = Scheme /\ i < Len(text) /\ text[i + 1] \notin WS}
  IN IF starts = {} THEN None
     ELSE LET i == CHOOSE j \in starts : \A k \in starts : j <= k
          IN SubSeq(text, i, RunEnd(text, i))

\* any(url in text for url in ["http://", "https://"])
ContainsScheme(text) == \E i \in 1..Len(text) : text[i] = Scheme

\* message.split(): the maximal runs of non-whitespace, in order.
RECURSIVE Split(_)
Split(s) ==
  IF s = <<>> THEN <<>>
  ELSE IF s[1] \in WS THEN Split(Tail(s))
  ELSE LET e == RunEnd(s, 1)
       IN <<SubSeq(s, 1, e)>> \o Split(SubSeq(s, e + 1, Len(s)))

\* word.startswith("http")
StartsWithHttp(word) == Len(word) > 0 /\ word[1] \in {Scheme, "http"}

\* next((word for word in message.split() if word.startswith("http")), None)
FirstHttpWord(message) ==
  LET words == Split(message)
      hits == {i \in 1..Len(words) : StartsWithHttp(words[i])}
  IN IF hits = {} THEN None
     ELSE words[CHOOSE j \in hits : \A k \in hits : j <= k]

\* ---------------------------------------------------------------- nodes
NoUrlError == <<"No URL found in the message.">>

init_state(st) ==
  LET message == st.original_message
      url == FirstHttpWord(message)
      error == IF Truthy(url) THEN None ELSE NoUrlError
  IN [ original_message |-> message,
       url |-> IF Truthy(url) THEN url ELSE <<>>,
       content_type |-> "Webpage",
       content |-> <<>>,
       summary |-> <<>>,
       error |-> error,
       route_decision |-> NoneDecision,
       needs_web_fallback |-> FALSE ]

ExtractorTool == {"WebpageExtractor", "PDFExtractor", "TwitterExtractor",
                  "LinkedInExtractor", "YoutubeExtractor", "Unsupported"}

\* What b.RouteRequest can do: return a member of the enum, return some
\* other value, or raise.
RouteOutcomes == ExtractorTool \cup {"<unexpected>", "<raise>"}

UnsupportedError == <<"Unsupported URL type or no URL found by LLM Router.">>
RouterFailedError == <<"LLM Router failed: ">> \o ExcText
RouterUnexpectedError == <<"LLM Router returned an unexpected value: ", "x">>

\* Variant: the router does not look at the error init left.
RouterCallsLLM_NoInitCheck(st) == TRUE

\* TRUE when the node reaches the call of b.RouteRequest.
RouterCallsLLM(st) == ~Truthy(Get(st, "error", None))

\* Variant: a failed classifier call is recorded like an Unsupported answer.
llm_router_RaiseAsUnsupported(st, route_result) ==
  IF ~RouterCallsLLM(st)
  THEN [error |-> st.error, route_decision |-> "__error__"]
  ELSE CASE route_result \in {"<raise>", "Unsupported"} ->
              [route_decision |-> "__unsupported__", error |-> UnsupportedError]
         [] route_result = "WebpageExtractor" ->
              [route_decision |-> "web_extractor", error |-> None]
         [] route_result = "PDFExtractor" ->
              [route_decision |-> "pdf_extractor", error |-> None]
         [] route_result = "TwitterExtractor" ->
              [route_decision |-> "twitter_extractor", error |-> None]
         [] route_result = "LinkedInExtractor" ->
              [route_decision |-> "linkedin_extractor", error |-> None]
         [] route_result = "YoutubeExtractor" ->
              [route_decision |-> "youtube_extractor", error |-> None]
         [] OTHER ->
              [route_decision |-> "__error__", error |-> RouterUnexpectedError]

llm_router(st, route_result) ==
  IF ~RouterCallsLLM(st)
  THEN [error |-> st.error, route_decision |-> "__error__"]
  ELSE CASE route_result = "<raise>" ->
              [route_decision |-> "__error__", error |-> RouterFailedError]
         [] route_result = "WebpageExtractor" ->
              [route_decision |-> "web_extractor", error |-> None]
         [] route_result = "PDFExtractor" ->
              [route_decision |-> "pdf_extractor", error |-> None]
         [] route_result = "TwitterExtractor" ->
              [route_decision |-> "twitter_extractor", error |-> None]
         [] route_result = "LinkedInExtractor" ->
              [route_decision |-> "linkedin_extractor", error |-> None]
         [] route_result = "YoutubeExtractor" ->
              [route_decision |-> "youtube_extractor", error |-> None]
         [] route_result = "Unsupported" ->
              [route_decision |-> "__unsupported__", error |-> UnsupportedError]
         [] OTHER ->
              [route_decision |-> "__error__", error |-> RouterUnexpectedError]

\* ---------------------------------------------------------------- tools
StrResult(s) == [type |-> "str", val |-> s]

\* What the Tavily client can do on one call: be uninitialised, raise,
\* return a falsy value, or return a dictionary.
ResultEntries == {[raw_content |-> r, content |-> c] :
                    r \in {None, <<"x">>}, c \in {<<>>, <<"x">>, <<" ">>}}
ResultLists == {<<>>} \cup {<<e>> : e \in ResultEntries}
FailedLists == {<<>>, <<(<<Scheme, "x">>)>>}
TavilyOutcomes ==
  {[client |-> FALSE, call |-> "none", results |-> <<>>, failed_results |-> <<>>]}
  \cup {[client |-> TRUE, call |-> c, results |-> <<>>, failed_results |-> <<>>] :
          c \in {"raise", "empty"}}
  \cup {[client |-> TRUE, call |-> "dict", results |-> r, failed_results |-> f] :
          r \in ResultLists, f \in FailedLists}

run_tavily_tool(mode, arg, tav) ==
  IF ~tav.client
  THEN StrResult(<<"Error: Tavily client is not available. Check API Key.">>)
  ELSE IF mode = "search" /\ arg = <<>>
  THEN StrResult(<<"Error: Query is required for search mode.">>)
  ELSE IF tav.call = "raise"
  THEN StrResult(<<(IF mode = "search" THEN "Error: Tavily search encountered an error. "
                    ELSE "Error: Tavily extract encountered an error. ")>> \o ExcText)
  ELSE IF tav.call = "empty"
  THEN StrResult(<<(IF mode = "search" THEN "Error: Tavily search found no information."
                    ELSE "Error: Tavily extract found no information.")>>)
  ELSE [type |-> "dict", results |-> tav.results, failed_results |-> tav.failed_results]

\* sep.join(parts)
RECURSIVE Join(_, _)
Join(sep, parts) ==
  IF parts = <<>> THEN <<>>
  ELSE IF Len(parts) = 1 THEN parts[1]
  ELSE parts[1] \o sep \o Join(sep, Tail(parts))

\* What the download and the parse of a PDF can do.
PdfTexts == {<<>>, <<"x">>, <<" ">>, <<"\n">>, <<"x", "\n">>}
PdfOutcomes ==
  {[download |-> "RequestException", pdf_header |-> FALSE, parse |-> "none", text |-> <<>>]}
  \cup {[download |-> "ok", pdf_header |-> FALSE, parse |-> "none", text |-> <<>>]}
  \cup {[download |-> "ok", pdf_header |-> FALSE, parse |-> "ok", text |-> <<"x">>]}
  \cup {[download |-> "ok", pdf_header |-> TRUE, parse |-> p, text |-> <<>>] :
          p \in {"FitzError", "Exception"}}
  \cup {[download |-> "ok", pdf_header |-> TRUE, parse |-> "ok", text |-> t] : t \in PdfTexts}

PdfDownloadError == <<"Error downloading PDF: ">> \o ExcText
PdfProcessingError == <<"Error processing PDF: ">> \o ExcText
PdfUnexpectedError == <<"An unexpected error occurred: ">> \o ExcText
PdfNotPdfError == <<"Error: URL does not point to a PDF file (Content-Type: ", "x", ")">>

get_pdf_text(url, pdf) ==
  IF pdf.download = "RequestException" THEN PdfDownloadError
  ELSE IF ~pdf.pdf_header THEN PdfNotPdfError
  ELSE IF pdf.parse = "FitzError" THEN PdfProcessingError
  ELSE IF pdf.parse = "Exception" THEN PdfUnexpectedError
  ELSE pdf.text

\* ------------------------------------------------------ extractor nodes
WebUnexpectedError ==
  <<"Error: An unexpected error occurred while getting content from the URL. ">> \o ExcText
WebEmptyError == <<"Tavily extract did not return any content for the URL.">>
WebFailedError(failed) == <<"Tavily failed to extract content from: ">> \o Join(<<", ">>, failed)

RECURSIVE WebContentSource(_, _)
WebContentSource(results, url) ==
  IF results = <<>> THEN <<>>
  ELSE LET res == results[1]
           raw_content == IF Truthy(res.raw_content) THEN res.raw_content ELSE res.content
           part == IF Truthy(raw_content)
                   THEN <<"URL: ">> \o url \o <<"\n", "Raw Content: ">> \o raw_content \o <<"\n", "\n">>
                   ELSE <<>>
       IN part \o WebContentSource(Tail(results), url)

\* Variant: the node leaves the fallback flag as it found it.
get_web_content_FlagKept(st, tav) ==
  LET r == run_tavily_tool("extract", st.url, tav)
      flag == Get(st, "needs_web_fallback", FALSE)
  IN IF r.type = "str"
     THEN [content_type |-> "Webpage", content |-> <<>>,
           error |-> WebUnexpectedError, needs_web_fallback |-> flag]
     ELSE LET content_source == WebContentSource(r.results, st.url)
              error_message ==
                IF r.failed_results # <<>> THEN WebFailedError(r.failed_results)
                ELSE IF content_source = <<>> THEN WebEmptyError
                ELSE None
          IN [content_type |-> "Webpage", content |-> Strip(content_source),
              error |-> error_message, needs_web_fallback |-> flag]

get_web_content(st, tav) ==
  LET r == run_tavily_tool("extract", st.url, tav)
  IN IF r.type = "str"
     THEN \* str has no .get: AttributeError, caught by the node
          [content_type |-> "Webpage", content |-> <<>>,
           error |-> WebUnexpectedError, needs_web_fallback |-> FALSE]
     ELSE LET content_source == WebContentSource(r.results, st.url)
              error_message ==
                IF r.failed_results # <<>> THEN WebFailedError(r.failed_results)
                ELSE IF content_source = <<>> THEN WebEmptyError
                ELSE None
          IN [content_type |-> "Webpage", content |-> Strip(content_source),
              error |-> error_message, needs_web_fallback |-> FALSE]

PdfNoTextError == <<"PDF extraction returned no text.">>

handle_pdf_content(st, pdf) ==
  LET extracted_text == get_pdf_text(st.url, pdf)
      is_error == StartsWithError(extracted_text)
      error_message == IF is_error THEN extracted_text
                       ELSE IF ~Truthy(extracted_text) THEN PdfNoTextError
                       ELSE None
      pdf_text == IF error_message = None THEN extracted_text ELSE <<>>
  IN [content |-> Strip(pdf_text), content_type |-> "PDF",
      error |-> error_message, needs_web_fallback |-> FALSE]

\* ---------------------------------------------------------- twitter tool
\* The tweet id extracted from the URL; the conversation ids the API can
\* report for it: none (0), its own id (the tweet opens the conversation or
\* stands alone), or another tweet's id (the tweet is a reply in it).
TweetId == 1
Tweet(id, conv, at, text) == [id |-> id, conversationId |-> conv, createdAt |-> at, text |-> text]
MainTweets == {Tweet(TweetId, c, 2, t) : c \in {0, 1, 2}, t \in {<<"x">>, <<>>, None}}
\* What the search for conversation `c` can list: the requested tweet
\* itself, tweet 2 (the opening tweet of conversation 2, otherwise a reply)
\* and the later reply 3.
ThreadTweets(c) == {Tweet(2, c, IF c = 2 THEN 1 ELSE 3, <<"y">>), Tweet(3, c, 4, <<"z">>),
                    Tweet(TweetId, c, 2, <<"x">>)}
ThreadLists(c) == {<<>>} \cup {<<a>> : a \in ThreadTweets(c)}
                   \cup {p \in ThreadTweets(c) \X ThreadTweets(c) : p[1] # p[2]}
TwitterOutcomes ==
  {[api_key |-> FALSE, id_match |-> FALSE, main |-> "none", tweet |-> Tweet(TweetId, 0, 2, <<>>),
    conv |-> "none", thread |-> <<>>]}
  \cup {[api_key |-> TRUE, id_match |-> FALSE, main |-> "none", tweet |-> Tweet(TweetId, 0, 2, <<>>),
         conv |-> "none", thread |-> <<>>]}
  \cup {[api_key |-> TRUE, id_match |-> TRUE, main |-> m, tweet |-> Tweet(TweetId, 0, 2, <<>>),
         conv |-> "none", thread |-> <<>>] : m \in {"RequestException", "Exception", "not_success"}}
  \cup {[api_key |-> TRUE, id_match |-> TRUE, main |-> "ok", tweet |-> t,
         conv |-> "none", thread |-> <<>>] : t \in {m \in MainTweets : m.conversationId = 0}}
  \cup {[api_key |-> TRUE, id_match |-> TRUE, main |-> "ok", tweet |-> t,
         conv |-> c, thread |-> <<>>] :
          t \in {m \in MainTweets : m.conversationId # 0},
          c \in {"RequestException", "Exception", "not_success", "empty"}}
  \cup UNION {{[api_key |-> TRUE, id_match |-> TRUE, main |-> "ok", tweet |-> t,
                conv |-> "ok", thread |-> th] : th \in ThreadLists(t.conversationId) \ {<<>>}} :
              t \in {m \in MainTweets : m.conversationId # 0}}

\* list.sort(key=createdAt): a stable insertion sort.
RECURSIVE InsertByDate(_, _)
InsertByDate(t, sorted) ==
  IF sorted = <<>> THEN <<t>>
  ELSE IF t.createdAt < sorted[1].createdAt THEN <<t>> \o sorted
  ELSE <<sorted[1]>> \o InsertByDate(t, Tail(sorted))

RECURSIVE SortByDate(_)
SortByDate(ts) ==
  IF ts = <<>> THEN <<>>
  ELSE InsertByDate(ts[Len(ts)], SortByDate(SubSeq(ts, 1, Len(ts) - 1)))

RECURSIVE FilterOutId(_, _)
FilterOutId(ts, id) ==
  IF ts = <<>> THEN <<>>
  ELSE (IF ts[1].id # id THEN <<ts[1]>> ELSE <<>>) \o FilterOutId(Tail(ts), id)

RECURSIVE TweetLines(_)
TweetLines(ts) ==
  IF ts = <<>> THEN <<>>
  ELSE <<(<<"Tweet by @user (time):", "\n">> \o Strip(ts[1].text) \o <<"\n", "---">>)>>
       \o TweetLines(Tail(ts))

\* The value that stands for the tool raising instead of returning.
ToolRaised == <<"<raised>">>

fetch_tweet_thread_ConvFailureFatal(url, tw) ==
  IF ~tw.api_key
  THEN <<"Error: X_API_KEY or X-API-KEY not found in environment variables.">>
  ELSE IF ~tw.id_match
  THEN <<"Error: Could not extract Tweet ID from URL: ">> \o url
  ELSE IF tw.main # "ok" \/ tw.conv \in {"RequestException", "Exception", "not_success"}
  THEN <<"Error: Network or API error fetching main tweet 1: ">> \o ExcText
  ELSE IF tw.tweet.text = None THEN ToolRaised
  ELSE Strip(Join(<<"\n">>, TweetLines(<<tw.tweet>>)))

fetch_tweet_thread(url, tw) ==
  IF ~tw.api_key
  THEN <<"Error: X_API_KEY or X-API-KEY not found in environment variables.">>
  ELSE IF ~tw.id_match
  THEN <<"Error: Could not extract Tweet ID from URL: ">> \o url
  ELSE IF tw.main = "not_success"
  THEN <<"Error: Failed to fetch main tweet 1. API Status: ", "x">>
  ELSE IF tw.main = "RequestException"
  THEN <<"Error: Network or API error fetching main tweet 1: ">> \o ExcText
  ELSE IF tw.main = "Exception"
  THEN <<"Error: Unexpected error processing main tweet response: ">> \o ExcText
  ELSE LET conversation_id == tw.tweet.conversationId
           fetch_thread == conversation_id # 0 /\ conversation_id # TweetId
           extra == IF fetch_thread /\ tw.conv = "ok"
                    THEN FilterOutId(tw.thread, TweetId) ELSE <<>>
           all_tweets == SortByDate(<<tw.tweet>> \o extra)
           output_lines == TweetLines(all_tweets)
       IN IF \E i \in 1..Len(all_tweets) : all_tweets[i].text = None
          THEN ToolRaised  \* a null "text": None.strip() raises AttributeError
          ELSE IF output_lines = <<>>
          THEN <<"Error: No tweet data could be formatted for tweet ID 1.">>
          ELSE Strip(Join(<<"\n">>, output_lines))

TwitterNoContentError == <<"Twitter tool returned no content.">>
TwitterUnexpectedError ==
  <<"Error: An unexpected error occurred while calling the Twitter tool. ">> \o ExcText

get_twitter_content(st, tw) ==
  LET content_result == fetch_tweet_thread(st.url, tw)
      error_message == IF content_result = ToolRaised THEN TwitterUnexpectedError
                       ELSE IF StartsWithError(content_result) THEN content_result
                       ELSE IF ~Truthy(content_result) THEN TwitterNoContentError
                       ELSE None
  IN [content_type |-> "Webpage",
      content |-> IF error_message = None THEN Strip(content_result) ELSE <<>>,
      error |-> error_message, needs_web_fallback |-> FALSE]

\* --------------------------------------------------------- linkedin tool
scrape_linkedin_post(url, is_post_url, tav) ==
  IF ~is_post_url
  THEN StrResult(<<"Error: URL does not appear to be a valid LinkedIn post URL.">>)
  ELSE LET results == run_tavily_tool("search", url, tav)
       IN IF results.type = "str" /\ StartsWithError(results.val) THEN results
          ELSE IF results.type # "dict"
          THEN StrResult(<<"Error: Unexpected response format from Tavily tool.">>)
          ELSE IF results.results = <<>>
          THEN StrResult(<<"Error: Tavily found no information for this LinkedIn URL.">>)
          ELSE LET first_result == results.results[1]
               IN IF Truthy(first_result.content)
                  THEN [type |-> "dict", content |-> first_result.content]
                  ELSE IF Truthy(first_result.raw_content)
                  THEN [type |-> "dict", content |-> first_result.raw_content]
                  ELSE StrResult(<<"Error: Tavily returned results, but no extractable content was found.">>)

LinkedInUnexpectedError == <<"LinkedIn tool returned unexpected result or no content: ", "x">>

get_linkedin_content(st, is_post_url, tav) ==
  LET result == scrape_linkedin_post(st.url, is_post_url, tav)
  IN IF result.type = "str" /\ StartsWithError(result.val)
     THEN [content_type |-> "Webpage", content |-> <<>>,
           error |-> result.val, needs_web_fallback |-> FALSE]
     ELSE IF result.type = "dict" /\ Truthy(result.content)
     THEN [content_type |-> "Webpage", content |-> Strip(result.content),
           error |-> None, needs_web_fallback |-> FALSE]
     ELSE [content_type |-> "Webpage", content |-> <<>>,
           error |-> LinkedInUnexpectedError, needs_web_fallback |-> FALSE]

\* ---------------------------------------------------------- youtube tool
\* What the four attempts can return.  A failed attempt yields no value;
\* the HTML parse reports an error exactly when it found nothing.
YoutubeOutcomes ==
  {[video_id |-> FALSE, bs_title |-> None, bs_desc |-> None, dlp_desc |-> None,
    dlp_err |-> FALSE, transcript |-> None, transcript_err |-> FALSE,
    api_key |-> FALSE, api_desc |-> None, api_err |-> FALSE]}
  \cup
  {y \in [video_id : {TRUE}, bs_title : {None, <<"T">>},
          bs_desc : {None, <<"b">>, <<"b", "b">>},
          dlp_desc : {None, <<>>, <<"d">>, <<"d", "d">>}, dlp_err : BOOLEAN,
          transcript : {None, <<"t">>}, transcript_err : BOOLEAN,
          api_key : BOOLEAN, api_desc : {None, <<"a">>, <<"a", "a">>}, api_err : BOOLEAN] :
     /\ y.dlp_err => y.dlp_desc = None
     /\ y.transcript_err => y.transcript = None
     /\ y.api_err => y.api_desc = None
     /\ ~y.api_key => (y.api_desc = None /\ ~y.api_err)}

\* max(potential_descriptions, key=len): the first candidate, in insertion
\* order, of the greatest length.
\* Variant: among candidates of the same length the last one wins.
RECURSIVE LongestFirst_LastWins(_)
LongestFirst_LastWins(cands) ==
  IF Len(cands) = 1 THEN cands[1]
  ELSE LET rest == LongestFirst_LastWins(Tail(cands))
       IN IF Len(cands[1]) > Len(rest) THEN cands[1] ELSE rest

RECURSIVE LongestFirst(_)
LongestFirst(cands) ==
  IF Len(cands) = 1 THEN cands[1]
  ELSE LET rest == LongestFirst(Tail(cands))
       IN IF Len(cands[1]) >= Len(rest) THEN cands[1] ELSE rest

Opt(cond, v) == IF cond THEN <<v>> ELSE <<>>

\* Variant: a video without any description is a terminal failure, whatever
\* title or transcript was obtained.
fetch_youtube_content_with_fallbacks_NeedsDescription(url, yt) ==
  LET potential_descriptions ==
        Opt(Truthy(yt.bs_desc), yt.bs_desc)
        \o Opt(Truthy(yt.dlp_desc), yt.dlp_desc)
        \o Opt(yt.api_key /\ Truthy(yt.api_desc), yt.api_desc)
  IN IF ~yt.video_id
     THEN [type |-> "dict", error |-> "Could not extract YouTube video ID from URL",
           details |-> <<>>]
     ELSE IF potential_descriptions = <<>>
     THEN [type |-> "dict", error |-> "youtube_fallback_failed",
           details |-> <<"All methods failed without specific errors.">>]
     ELSE StrResult(<<"**Video Description:**", "\n", "<code fence>", "\n">>
                      \o Strip(LongestFirst(potential_descriptions))
                      \o <<"\n", "<code fence>">>)

fetch_youtube_content_with_fallbacks(url, yt) ==
  IF ~yt.video_id
  THEN [type |-> "dict", error |-> "Could not extract YouTube video ID from URL",
        details |-> <<>>]
  ELSE
    LET final_title == yt.bs_title
        bs_title_error == ~Truthy(yt.bs_title)
        bs_desc_error == ~Truthy(yt.bs_desc)
        potential_descriptions ==
          Opt(Truthy(yt.bs_desc), yt.bs_desc)
          \o Opt(Truthy(yt.dlp_desc), yt.dlp_desc)
          \o Opt(yt.api_key /\ Truthy(yt.api_desc), yt.api_desc)
        final_description ==
          IF potential_descriptions # <<>> THEN LongestFirst(potential_descriptions)
          ELSE None
        final_transcript == yt.transcript
        errors ==
          Opt(yt.dlp_err, <<"yt-dlp (Description): ", "exc">>)
          \o Opt(yt.transcript_err, <<"Transcript API: ", "exc">>)
          \o Opt(yt.api_key /\ yt.api_err, <<"YouTube Data API (Description): ", "exc">>)
          \o Opt(potential_descriptions = <<>> /\ bs_desc_error,
                 <<"BeautifulSoup (Description): ", "exc">>)
          \o Opt(~Truthy(final_title) /\ bs_title_error, <<"BeautifulSoup (Title): ", "exc">>)
        output_parts ==
          Opt(Truthy(final_title), <<"**Video Title:**", "\n">> \o Strip(final_title))
          \o Opt(Truthy(final_description),
                 <<"**Video Description:**", "\n", "<code fence>", "\n">>
                   \o Strip(final_description) \o <<"\n", "<code fence>">>)
          \o Opt(Truthy(final_transcript),
                 <<"**Video Transcript:**", "\n", "<code fence>", "\n">>
                   \o Strip(final_transcript) \o <<"\n", "<code fence>">>)
    IN IF output_parts # <<>>
       THEN StrResult(Join(<<"\n", "\n">>, output_parts))
       ELSE [type |-> "dict", error |-> "youtube_fallback_failed",
             details |-> IF errors # <<>> THEN Join(<<"; ">>, errors)
                         ELSE <<"All methods failed without specific errors.">>]

YoutubeToolError(err) == <<"YouTube tool encountered an error: ", err>>

\* Variant: the aggregate failure is reported like any other tool error.
get_youtube_content_FailureIsError(st, yt) ==
  LET result == fetch_youtube_content_with_fallbacks(st.url, yt)
  IN IF result.type = "dict"
     THEN [content_type |-> "Webpage", content |-> <<>>,
           error |-> YoutubeToolError(result.error), needs_web_fallback |-> FALSE]
     ELSE [content_type |-> "Webpage", content |-> Strip(result.val),
           error |-> None, needs_web_fallback |-> FALSE]

get_youtube_content(st, yt) ==
  LET result == fetch_youtube_content_with_fallbacks(st.url, yt)
  IN IF result.type = "dict" /\ result.error = "youtube_fallback_failed"
     THEN [content_type |-> "Webpage", content |-> <<>>,
           error |-> None, needs_web_fallback |-> TRUE]
     ELSE IF result.type = "dict"
     THEN [content_type |-> "Webpage", content |-> <<>>,
           error |-> YoutubeToolError(result.error), needs_web_fallback |-> FALSE]
     ELSE [content_type |-> "Webpage", content |-> Strip(result.val),
           error |-> None, needs_web_fallback |-> FALSE]

\* ------------------------------------------------------------ summarizer
\* What b.SummarizeContent can do: raise, or return a Summary.
SummaryOutcomes ==
  {[call |-> "raise", title |-> <<>>, key_points |-> <<>>, concise_summary |-> <<>>]}
  \cup {[call |-> "ok", title |-> t, key_points |-> k, concise_summary |-> c] :
          t \in {<<>>, <<"T">>},
          k \in {<<>>, <<(<<"p">>)>>, <<(<<" ", "p", " ">>), <<>>, <<"q">>>>},
          c \in {<<>>, <<"s">>, <<" ", "s", "\n">>, <<"s", "\n", " ", "\n", "\n", "u">>}}

RECURSIVE WsRunEnd(_, _)
WsRunEnd(s, i) == IF i < Len(s) /\ s[i + 1] \in WS THEN WsRunEnd(s, i + 1) ELSE i

SetMax(S) == CHOOSE m \in S : \A n \in S : n <= m

\* Variant: blank lines are left as they are.
CollapseBlankLines_Kept(s) == s

\* re.sub(r"\n\s*\n", "\n\n", s): from a newline, the longest run of
\* whitespace that ends in a newline becomes exactly two newlines.
RECURSIVE CollapseBlankLines(_)
CollapseBlankLines(s) ==
  IF s = <<>> THEN <<>>
  ELSE IF s[1] # "\n" THEN <<s[1]>> \o CollapseBlankLines(Tail(s))
  ELSE LET e == WsRunEnd(s, 1)
           nls == {j \in 2..e : s[j] = "\n"}
       IN IF nls = {} THEN <<"\n">> \o CollapseBlankLines(Tail(s))
          ELSE <<"\n", "\n">> \o CollapseBlankLines(SubSeq(s, SetMax(nls) + 1, Len(s)))

RECURSIVE KeyPointLines(_)
KeyPointLines(points) ==
  IF points = <<>> THEN <<>>
  ELSE (IF Truthy(points[1]) THEN <<"-", " ">> \o Strip(points[1]) \o <<"\n">> ELSE <<>>)
       \o KeyPointLines(Tail(points))

FormatSummary(sm) ==
  LET title == IF Truthy(sm.title) THEN sm.title ELSE <<"Summary">>
      lines == KeyPointLines(sm.key_points)
      concise_summary == IF Truthy(sm.concise_summary) THEN Strip(sm.concise_summary)
                         ELSE <<"No summary generated.">>
      formatted_summary ==
        <<"#", " ">> \o title \o <<"\n", "\n">>
        \o (IF lines # <<>> THEN <<"## Key Points:", "\n">> \o lines \o <<"\n">> ELSE <<>>)
        \o <<"## Summary:", "\n">> \o concise_summary
  IN Strip(CollapseBlankLines(formatted_summary))

NothingToSummarizeError == <<"No content found to summarize.">>
SummarizationFailedError == <<"Summarization failed: ">> \o ExcText

\* Variant: whitespace-only content is summarized like any other.
SummarizerCallsLLM_BlankIncluded(st) ==
  /\ ~Truthy(Get(st, "error", None))
  /\ Truthy(Get(st, "content", None))

\* TRUE when the node reaches the call of b.SummarizeContent.
SummarizerCallsLLM(st) ==
  /\ ~Truthy(Get(st, "error", None))
  /\ Truthy(Get(st, "content", None)) /\ ~IsBlank(st.content)

\* Variant: a failed summarization call leaves the error unset.
summarize_content_FailureUnreported(st, sm) ==
  IF Truthy(Get(st, "error", None))
  THEN [summary |-> <<>>, error |-> st.error]
  ELSE IF ~SummarizerCallsLLM(st)
  THEN [summary |-> <<>>, error |-> NothingToSummarizeError]
  ELSE IF sm.call = "raise"
  THEN [summary |-> <<>>, error |-> None]
  ELSE [summary |-> FormatSummary(sm), error |-> None]

summarize_content(st, sm) ==
  IF Truthy(Get(st, "error", None))
  THEN [summary |-> <<>>, error |-> st.error]
  ELSE IF ~SummarizerCallsLLM(st)
  THEN [summary |-> <<>>, error |-> NothingToSummarizeError]
  ELSE IF sm.call = "raise"
  THEN [summary |-> <<>>, error |-> SummarizationFailedError]
  ELSE [summary |-> FormatSummary(sm), error |-> None]

\* ------------------------------------------------------ conditional edges
END == "END"

route_based_on_llm(st) ==
  LET decision == Get(st, "route_decision", NoneDecision)
      error == Get(st, "error", None)
  IN IF Truthy(error) THEN END
     ELSE IF decision \in {"web_extractor", "pdf_extractor", "twitter_extractor",
                           "linkedin_extractor", "youtube_extractor"}
     THEN decision
     ELSE END

\* Variant: the content test comes before the error test.
should_summarize_ContentFirst(st) ==
  LET content == Get(st, "content", None)
      error == Get(st, "error", None)
      has_content == Truthy(content) /\ ~IsBlank(content)
      needs_fallback == Get(st, "needs_web_fallback", FALSE)
  IN IF needs_fallback THEN "web_extractor"
     ELSE IF has_content THEN "summarize_content"
     ELSE IF Truthy(error) THEN END
     ELSE END

should_summarize(st) ==
  LET content == Get(st, "content", None)
      error == Get(st, "error", None)
      has_content == Truthy(content) /\ ~IsBlank(content)
      needs_fallback == Get(st, "needs_web_fallback", FALSE)
  IN IF needs_fallback THEN "web_extractor"
     ELSE IF Truthy(error) THEN END
     ELSE IF has_content THEN "summarize_content"
     ELSE END

Extractors == {"web_extractor", "pdf_extractor", "twitter_extractor",
               "linkedin_extractor", "youtube_extractor"}

\* Variant: the YouTube node's fallback label leads back to the YouTube node.
EdgeMap_YoutubeLoop(node) ==
  CASE node = "llm_router" -> [l \in Extractors \cup {END} |-> l]
    [] node = "youtube_extractor" ->
         [l \in {"summarize_content", "web_extractor", END} |->
            IF l = "web_extractor" THEN "youtube_extractor" ELSE l]
    [] node \in Extractors \ {"youtube_extractor"} ->
         [l \in {"summarize_content", END} |-> l]
    [] OTHER -> [l \in {} |-> l]

\* build_graph: the edge map of each node's conditional edge, from the
\* label the edge function returns to the node that runs next.
EdgeMap(node) ==
  CASE node = "llm_router" -> [l \in Extractors \cup {END} |-> l]
    [] node = "youtube_extractor" ->
         [l \in {"summarize_content", "web_extractor", END} |-> l]
    [] node \in Extractors \ {"youtube_extractor"} ->
         [l \in {"summarize_content", END} |-> l]
    [] OTHER -> [l \in {} |-> l]

\* Variant: a failed web extraction is tried again.
Follow_WebRetries(node, label) ==
  IF node = "web_extractor" /\ label = END THEN "web_extractor"
  ELSE IF label \in DOMAIN EdgeMap(node) THEN EdgeMap(node)[label] ELSE "exception"

\* The node the graph runs after `node` returned label `label`; a label
\* missing from the node's edge map makes the graph raise.
Follow(node, label) ==
  IF label \in DOMAIN EdgeMap(node) THEN EdgeMap(node)[label] ELSE "exception"

\* ------------------------------------------------------------- run_agent
\* Variant: the error is returned as it is, without the "Error: " prefix.
RunAgentResult_NoPrefix(fs, raised) ==
  IF raised THEN <<"Error: An unexpected error occurred in the agent: ">> \o ExcText
  ELSE IF DOMAIN fs = {} THEN <<"Error: Agent workflow did not produce a final state.">>
  ELSE LET summary_text == Get(fs, "summary", None)
           final_error == Get(fs, "error", None)
       IN IF Truthy(summary_text) /\ ~IsBlank(summary_text) THEN summary_text
          ELSE IF Truthy(final_error) THEN final_error
          ELSE IF ~Truthy(Get(fs, "content", None))
          THEN (IF Get(fs, "route_decision", NoneDecision) = "__unsupported__"
                THEN <<"Error: The provided link type is not supported or no URL was found.">>
                ELSE <<"Error: Agent finished without extracting content.">>)
          ELSE <<"Error: Agent finished. Content was extracted, but no summary was generated and no specific error was reported.">>

RunAgentResult(fs, raised) ==
  IF raised THEN <<"Error: An unexpected error occurred in the agent: ">> \o ExcText
  ELSE IF DOMAIN fs = {} THEN <<"Error: Agent workflow did not produce a final state.">>
  ELSE LET summary_text == Get(fs, "summary", None)
           final_error == Get(fs, "error", None)
       IN IF Truthy(summary_text) /\ ~IsBlank(summary_text) THEN summary_text
          ELSE IF Truthy(final_error)
          THEN (IF LowerStartsWithError(final_error) THEN final_error
                ELSE <<"Error: ">> \o final_error)
          ELSE IF ~Truthy(Get(fs, "content", None))
          THEN (IF Get(fs, "route_decision", NoneDecision) = "__unsupported__"
                THEN <<"Error: The provided link type is not supported or no URL was found.">>
                ELSE <<"Error: Agent finished without extracting content.">>)
          ELSE <<"Error: Agent finished. Content was extracted, but no summary was generated and no specific error was reported.">>

\* ----------------------------------------------------------------- state
\* ------------------------------------------------- handle_message: reply
\* Max Telegram message length.
MAX_LEN == 4096

\* html.escape(s) with quote=True, character by character.
EscapeChar(c) ==
  CASE c = "&" -> <<"&", "a", "m", "p", ";">>
    [] c = "<" -> <<"&", "l", "t", ";">>
    [] c = ">" -> <<"&", "g", "t", ";">>
    [] c = "\"" -> <<"&", "q", "u", "o", "t", ";">>
    [] c = "'" -> <<"&", "#", "x", "2", "7", ";">>
    [] OTHER -> <<c>>

RECURSIVE HtmlEscape(_)
HtmlEscape(s) ==
  IF Len(s) = 0 THEN <<>>
  ELSE IF Len(s) = 1 THEN EscapeChar(s[1])
  ELSE LET half == Len(s) \div 2
       IN HtmlEscape(SubSeq(s, 1, half)) \o HtmlEscape(SubSeq(s, half + 1, Len(s)))

\* s[from:to]
Slice(s, from, to) ==
  SubSeq(s, from + 1, IF to < Len(s) THEN to ELSE Len(s))

\* Variant: any string the agent returns is sent.
ShouldReply_AnyString(agent_result) == agent_result # None

\* isinstance(agent_result, str) and not agent_result.startswith("Error:")
ShouldReply(agent_result) == agent_result # None /\ ~StartsWithError(agent_result)

\* Variant: the loop steps one character too far.
NextChunkStart_SkipsOne(start) == start + MAX_LEN + 1

\* range(0, len(text_to_send_formatted), MAX_LEN): the value after `start`.
NextChunkStart(start) == start + MAX_LEN

\* One call of message.reply_text.
Reply(chunk, parse_mode, ok) == [text |-> chunk, parse_mode |-> parse_mode, ok |-> ok]

VARIABLES
  pc,            \* the step that runs next
  entry,         \* "bot": handle_message calls run_agent; "direct": run_agent is called
  text,          \* the message text
  extracted_url, \* handle_message: url_match.group(0)
  state,         \* the graph's state channels
  final_state,   \* run_agent: the last node's update, as streamed
  executed,      \* the nodes that ran, in order
  calls,         \* the external calls made, in order
  result,        \* run_agent's return value
  tool_call,     \* a tool called on its own: its arguments, outcome and return value
  chunk_start,   \* handle_message: the loop variable i of the chunk loop
  sent           \* handle_message: the reply_text calls made, in order

vars == <<pc, entry, text, extracted_url, state, final_state, executed, calls, result,
          tool_call, chunk_start, sent>>

NoDict == [k \in {} |-> None]

Init ==
  /\ text \in Messages \cup PdfUrlMessages
  /\ entry \in {"bot", "direct"}
  /\ pc = IF entry = "bot" THEN "handle_message" ELSE "init"
  /\ extracted_url = None
  /\ state = [original_message |-> text]
  /\ final_state = NoDict
  /\ executed = <<>>
  /\ calls = <<>>
  /\ result = None
  /\ tool_call = NoDict
  /\ chunk_start = 0
  /\ sent = <<>>

\* An external call: the function, its argument, and what came back (the
\* outcome of the classifier, of the Tavily, PDF, Twitter and LinkedIn
\* requests and of the summarizer; the value the YouTube tool returned).
Call(fn, arg, ret) == [fn |-> fn, arg |-> arg, ret |-> ret]

\* handle_message up to the call of run_agent.
HandleMessage ==
  /\ pc = "handle_message"
  /\ LET url_match == URLRegexSearch(text)
     IN IF ~ContainsScheme(text) \/ url_match = None
        THEN /\ pc' = "ignored"
             /\ UNCHANGED extracted_url
        ELSE /\ pc' = "init"
             /\ extracted_url' = url_match
  /\ UNCHANGED <<entry, text, state, final_state, executed, calls, result, tool_call,
                 chunk_start, sent>>

\* graph.astream(inputs, {"recursion_limit": 15})
RecursionLimit == 15

\* One step of graph.astream: the node returns `upd`, the graph merges it,
\* run_agent records it, and the node's outgoing edge picks the next node;
\* the graph raises when another node is due after RecursionLimit steps.
Step(node, upd, next, newcalls) ==
  /\ state' = Merge(state, upd)
  /\ final_state' = upd
  /\ executed' = Append(executed, node)
  /\ calls' = calls \o newcalls
  /\ pc' = IF next # END /\ Len(executed) + 1 >= RecursionLimit THEN "exception" ELSE next
  /\ UNCHANGED <<entry, text, extracted_url, result, tool_call, chunk_start, sent>>

NodeInit ==
  /\ pc = "init"
  /\ Step("init", init_state(state), "llm_router", <<>>)

NodeRouter ==
  /\ pc = "llm_router"
  /\ \E r \in RouteOutcomes :
       LET upd == llm_router(state, r)
       IN Step("llm_router", upd,
               Follow("llm_router", route_based_on_llm(Merge(state, upd))),
               IF RouterCallsLLM(state)
               THEN <<Call("RouteRequest", state.original_message, r)>> ELSE <<>>)

Extract(node, upd, tool, ret) ==
  Step(node, upd, Follow(node, should_summarize(Merge(state, upd))),
       <<Call(tool, state.url, ret)>>)

NodeWeb ==
  /\ pc = "web_extractor"
  /\ \E tav \in TavilyOutcomes :
       Extract("web_extractor", get_web_content(state, tav), "run_tavily_tool", tav)

NodePdf ==
  /\ pc = "pdf_extractor"
  /\ \E pdf \in PdfOutcomes :
       Extract("pdf_extractor", handle_pdf_content(state, pdf), "get_pdf_text", pdf)

NodeTwitter ==
  /\ pc = "twitter_extractor"
  /\ \E tw \in TwitterOutcomes :
       Extract("twitter_extractor", get_twitter_content(state, tw), "fetch_tweet_thread", tw)

NodeLinkedIn ==
  /\ pc = "linkedin_extractor"
  /\ \E is_post_url \in BOOLEAN, tav \in TavilyOutcomes :
       Extract("linkedin_extractor", get_linkedin_content(state, is_post_url, tav),
               "scrape_linkedin_post", [is_post_url |-> is_post_url, tav |-> tav])

NodeYoutube ==
  /\ pc = "youtube_extractor"
  /\ \E yt \in YoutubeOutcomes :
       Extract("youtube_extractor", get_youtube_content(state, yt),
               "fetch_youtube_content_with_fallbacks",
               fetch_youtube_content_with_fallbacks(state.url, yt))

NodeSummarize ==
  /\ pc = "summarize_content"
  /\ \E sm \in SummaryOutcomes :
       Step("summarize_content", summarize_content(state, sm), END,
            IF SummarizerCallsLLM(state)
            THEN <<Call("SummarizeContent", state.content, sm)>> ELSE <<>>)

\* run_agent after the stream ended (or raised): render the final state.
RunAgentReturn ==
  /\ pc \in {END, "exception"}
  /\ result' = RunAgentResult(final_state, pc = "exception")
  /\ pc' = "returned"
  /\ UNCHANGED <<entry, text, extracted_url, state, final_state, executed, calls, tool_call,
                 chunk_start, sent>>

\* handle_message after run_agent returned: the test of agent_result and
\* the entry into the chunk loop.
ProcessResult ==
  /\ pc = "returned" /\ entry = "bot"
  /\ pc' = IF ~ShouldReply(result) THEN "not_replying"
           ELSE IF Len(HtmlEscape(result)) > 0 THEN "send_chunk"
           ELSE "done"
  /\ chunk_start' = 0
  /\ UNCHANGED <<entry, text, extracted_url, state, final_state, executed, calls, result,
                 tool_call, sent>>

\* One iteration of the chunk loop: the HTML reply, on its failure the plain
\* reply of the raw text at the same indices, on the failure of that one
\* the break.  Telegram refuses an empty text.
SendChunk ==
  /\ pc = "send_chunk"
  /\ LET text_to_send_raw == result
         text_to_send_formatted == HtmlEscape(result)
         chunk == Slice(text_to_send_formatted, chunk_start, chunk_start + MAX_LEN)
         raw_chunk == Slice(text_to_send_raw, chunk_start, chunk_start + MAX_LEN)
         continue == IF NextChunkStart(chunk_start) < Len(text_to_send_formatted)
                     THEN "send_chunk" ELSE "done"
     IN \/ /\ sent' = Append(sent, Reply(chunk, "HTML", TRUE))
           /\ pc' = continue
        \/ /\ raw_chunk # <<>>
           /\ sent' = sent \o <<Reply(chunk, "HTML", FALSE), Reply(raw_chunk, None, TRUE)>>
           /\ pc' = continue
        \/ /\ sent' = sent \o <<Reply(chunk, "HTML", FALSE), Reply(raw_chunk, None, FALSE)>>
           /\ pc' = "done"
  /\ chunk_start' = IF pc' = "send_chunk" THEN NextChunkStart(chunk_start) ELSE chunk_start
  /\ UNCHANGED <<entry, text, extracted_url, state, final_state, executed, calls, result,
                 tool_call>>

Next ==
  \/ HandleMessage
  \/ NodeInit
  \/ NodeRouter
  \/ NodeWeb
  \/ NodePdf
  \/ NodeTwitter
  \/ NodeLinkedIn
  \/ NodeYoutube
  \/ NodeSummarize
  \/ RunAgentReturn
  \/ ProcessResult
  \/ SendChunk

Spec == Init /\ [][Next]_vars

\* ------------------------------------------------- the YouTube tool alone
\* fetch_youtube_content_with_fallbacks called on a URL, as in the module's
\* __main__ block: every combination of what its sources can return.
Pending == <<"<pending>">>
YoutubeUrl == <<"https://", "x">>

InitYoutube ==
  /\ pc = "tool"
  /\ entry = "direct"
  /\ text = YoutubeUrl
  /\ extracted_url = None
  /\ state = NoDict
  /\ final_state = NoDict
  /\ executed = <<>>
  /\ calls = <<>>
  /\ result = None
  /\ chunk_start = 0
  /\ sent = <<>>
  /\ tool_call \in {[url |-> YoutubeUrl, outcome |-> yt, ret |-> Pending] :
                      yt \in YoutubeOutcomes}

CallYoutubeTool ==
  /\ pc = "tool"
  /\ tool_call' = [tool_call EXCEPT
                     !.ret = fetch_youtube_content_with_fallbacks(tool_call.url,
                                                                  tool_call.outcome)]
  /\ pc' = "tool_returned"
  /\ UNCHANGED <<entry, text, extracted_url, state, final_state, executed, calls, result,
                 chunk_start, sent>>

NextYoutube == CallYoutubeTool

SpecYoutube == InitYoutube /\ [][NextYoutube]_vars

\* ------------------------------------------- the browser tools alone
\* get_page_screenshot_selenium and get_page_content_selenium called on a
\* URL, as in the module's __main__ block, one driver operation at a time.
\* tool_call.driver tells whether the local `driver` is set, tool_call.open
\* counts the sessions open on the grid, tool_call.log lists the driver
\* operations that completed.
BrowserFunctions == {"get_page_screenshot_selenium", "get_page_content_selenium"}
BrowserUrls == {<<Scheme, "x">>, <<Scheme, "x", ".pdf">>}
PngBytes == <<"<png bytes>">>
SeleniumError == <<"Error: An error occurred during Selenium processing: ">> \o ExcText
SeleniumTimeoutError(fn, url) ==
  <<"Error: Timeout occurred while loading ">> \o url
  \o (IF fn = "get_page_screenshot_selenium" THEN <<" for screenshot">> ELSE <<>>)
ScreenshotEmptyError == <<"Error: Failed to capture screenshot (empty bytes)">>
ScreenshotFailedError == <<"Error: Screenshot failed: ">> \o ExcText
AllMethodsFailedError ==
  <<"Error: Could not extract text content from page (all methods failed)">>
JavaScriptError == <<"Error: Failed to extract text via JavaScript: ">> \o ExcText
NoTextContentError == <<"Error: No text content could be extracted from the page">>
ElementTexts == {<<"x">>, <<" ">>, <<>>}

InitBrowser ==
  /\ pc = "connect"
  /\ entry = "direct"
  /\ text = <<>>
  /\ extracted_url = None
  /\ state = NoDict
  /\ final_state = NoDict
  /\ executed = <<>>
  /\ calls = <<>>
  /\ result = None
  /\ chunk_start = 0
  /\ sent = <<>>
  /\ tool_call \in {[fn |-> f, url |-> u, driver |-> FALSE, open |-> 0, page_text |-> None,
                      ret |-> Pending, log |-> <<>>] :
                      f \in BrowserFunctions, u \in BrowserUrls}

BrowserStep(next, new_call) ==
  /\ pc' = next
  /\ tool_call' = new_call
  /\ UNCHANGED <<entry, text, extracted_url, state, final_state, executed, calls, result,
                 chunk_start, sent>>

\* A return statement inside the try block: the value is kept and the
\* finally clause runs.
BrowserReturn(value, op) ==
  BrowserStep("finally", [tool_call EXCEPT !.ret = value, !.log = Append(@, op)])

\* driver = webdriver.Remote(...)
BrowserConnect ==
  /\ pc = "connect"
  /\ \/ BrowserStep("navigate", [tool_call EXCEPT !.driver = TRUE, !.open = @ + 1,
                                                   !.log = Append(@, "Remote")])
     \/ BrowserReturn(SeleniumError, "Remote raised")

\* set_page_load_timeout, driver.get(url) and the wait for the body.
BrowserNavigate ==
  /\ pc = "navigate"
  /\ \/ BrowserStep(IF tool_call.fn = "get_page_screenshot_selenium"
                     THEN "screenshot" ELSE "tweet_element",
                     [tool_call EXCEPT !.log = Append(@, "get")])
     \/ BrowserReturn(SeleniumTimeoutError(tool_call.fn, tool_call.url), "get timed out")
     \/ BrowserReturn(SeleniumError, "get raised")

\* The full-page screenshot, the standard one when the driver has no
\* full-page method, the empty-bytes test and the inner except.
BrowserScreenshot ==
  /\ pc = "screenshot"
  /\ \/ BrowserReturn(PngBytes, "get_full_page_screenshot_as_png")
     \/ BrowserReturn(PngBytes, "get_screenshot_as_png")
     \/ BrowserReturn(ScreenshotEmptyError, "empty screenshot")
     \/ BrowserReturn(ScreenshotFailedError, "screenshot raised")

\* if not page_text or not page_text.strip(): return error; return page_text
ContentReturn(page_text) ==
  IF ~Truthy(page_text) \/ IsBlank(page_text) THEN NoTextContentError ELSE page_text

\* find_tweet_article_element and tweet_article.text.
BrowserTweetElement ==
  /\ pc = "tweet_element"
  /\ \/ \E t \in ElementTexts :
          IF Truthy(t)
          THEN BrowserStep("finally", [tool_call EXCEPT !.page_text = t, !.ret = ContentReturn(t),
                                                       !.log = Append(@, "tweet_article.text")])
          ELSE BrowserStep("body_text", [tool_call EXCEPT !.page_text = t,
                                                         !.log = Append(@, "tweet_article.text")])
     \/ BrowserStep("body_text", [tool_call EXCEPT !.log = Append(@, "no tweet article")])
     \/ BrowserStep("body_text", [tool_call EXCEPT !.log = Append(@, "tweet article raised")])

\* document.body.innerText via execute_script, then body.text when the
\* script returned nothing.
BrowserBodyText ==
  /\ pc = "body_text"
  /\ \/ \E js \in ElementTexts \ {<<>>} :
          BrowserStep("finally", [tool_call EXCEPT !.page_text = js, !.ret = ContentReturn(js),
                                                  !.log = Append(@, "execute_script")])
     \/ \E body \in ElementTexts :
          BrowserStep("finally",
                      [tool_call EXCEPT !.page_text = body,
                                        !.ret = IF Truthy(body) THEN ContentReturn(body)
                                                ELSE AllMethodsFailedError,
                                        !.log = Append(@, "body.text")])
     \/ BrowserReturn(JavaScriptError, "execute_script raised")

\* Variant: the session is closed only when the function succeeded.
FinallyQuits_OnlyOnSuccess(call) == call.driver /\ ~StartsWithError(call.ret)

\* finally: if driver: driver.quit()
FinallyQuits(call) == call.driver

\* The finally clause.  When driver.quit() itself raises, the exception
\* leaves the function and the session may or may not be gone.
BrowserFinally ==
  /\ pc = "finally"
  /\ IF FinallyQuits(tool_call)
     THEN \/ BrowserStep("tool_returned", [tool_call EXCEPT !.open = @ - 1,
                                                            !.log = Append(@, "quit")])
          \/ \E left \in {0, 1} :
               BrowserStep("tool_raised", [tool_call EXCEPT !.open = @ - left,
                                                            !.log = Append(@, "quit raised")])
     ELSE BrowserStep("tool_returned", tool_call)

NextBrowser ==
  \/ BrowserConnect
  \/ BrowserNavigate
  \/ BrowserScreenshot
  \/ BrowserTweetElement
  \/ BrowserBodyText
  \/ BrowserFinally

SpecBrowser == InitBrowser /\ [][NextBrowser]_vars

\* ------------------------------------------- handle_message: long results
\* handle_message from the return of run_agent on, for results up to
\* MaxChunks chunks long, character by character: plain text, text that
\* ends in "&" and text that begins with "<", of lengths around the
\* multiples of MAX_LEN, and an error string.
MaxChunks == 3
Rep(c, n) == [k \in 1..n |-> c]
ResultLengths ==
  {1, MAX_LEN - 1}
  \cup {k * MAX_LEN : k \in 1..MaxChunks}
  \cup {k * MAX_LEN + 1 : k \in 1..(MaxChunks - 1)}
AgentResults ==
  {<<"Error: ", "x">>}
  \cup {Rep("a", n) : n \in ResultLengths}
  \cup {Rep("a", n - 1) \o <<"&">> : n \in ResultLengths}
  \cup {<<"<">> \o Rep("a", n - 1) : n \in ResultLengths}

InitReply ==
  /\ pc = "returned"
  /\ entry = "bot"
  /\ text = <<Scheme, "x">>
  /\ extracted_url = <<Scheme, "x">>
  /\ state = NoDict
  /\ final_state = NoDict
  /\ executed = <<>>
  /\ calls = <<>>
  /\ result \in AgentResults
  /\ tool_call = NoDict
  /\ chunk_start = 0
  /\ sent = <<>>

NextReply ==
  \/ ProcessResult
  \/ SendChunk

SpecReply == InitReply /\ [][NextReply]_vars

\* ------------------------------------------------------ the web server
\* The FastAPI application of bot.py: the lifespan's startup and shutdown
\* and the webhook route.  `entry` is the mode the environment selects,
\* `tool_call` the rest of the environment, `state` is app.state, `calls`
\* logs the calls on ptb_app and the background tasks, `sent` the HTTP
\* responses in the order of the requests.
MaxRequests == 2
SecretToken == <<"secret">>
ServerModes == {"polling", "webhook", "neither"}
\* What a call on ptb_app or on its bot can do.
PtbOutcomes == {"ok", "raise"}
\* The X-Telegram-Bot-Api-Secret-Token header of a request.
SecretHeaders == {None, SecretToken, <<"wrong">>}
\* The body of a request: not JSON, JSON that Update.de_json or the read of
\* update.update_id raises on, a text message, a command, an update
\* without a message text.
RequestBodies == {"invalid_json", "not_update", "text", "command", "no_text"}

InitServer ==
  /\ pc = "startup"
  /\ entry \in ServerModes
  /\ text = <<>>
  /\ extracted_url = None
  /\ state = NoDict
  /\ final_state = NoDict
  /\ executed = <<>>
  /\ calls = <<>>
  /\ result = None
  /\ tool_call \in {[TELEGRAM_WEBHOOK_SECRET_TOKEN |-> t] : t \in {None, <<>>, SecretToken}}
  /\ chunk_start = 0
  /\ sent = <<>>

ServerStep(next, new_state, new_calls, new_sent) ==
  /\ pc' = next
  /\ state' = new_state
  /\ calls' = calls \o new_calls
  /\ sent' = sent \o new_sent
  /\ UNCHANGED <<entry, text, extracted_url, final_state, executed, result, tool_call,
                 chunk_start>>

\* lifespan up to its yield: initialize(), add_handler, start() (whose
\* failure is caught in webhook mode only), then the flag.
Startup ==
  /\ pc = "startup"
  /\ \E init \in PtbOutcomes, start \in PtbOutcomes :
       LET inited == <<Call("initialize", <<>>, init)>>
           started == inited \o <<Call("start", <<>>, start)>>
       IN IF init = "raise" THEN ServerStep("startup_failed", state, inited, <<>>)
          ELSE IF start = "raise" /\ entry # "webhook"
          THEN ServerStep("startup_failed", state, started, <<>>)
          ELSE ServerStep("serving", [bot_initialized |-> TRUE], started, <<>>)

\* The calls the shutdown code makes, given what each of them does.
ShutdownCalls(mode, del, stop, down) ==
  IF mode = "webhook" /\ del = "raise" THEN <<Call("delete_webhook", <<>>, del)>>
  ELSE (IF mode = "webhook" THEN <<Call("delete_webhook", <<>>, del)>> ELSE <<>>)
       \o <<Call("stop", <<>>, stop)>>
       \o (IF stop = "raise" THEN <<>> ELSE <<Call("shutdown", <<>>, down)>>)

\* lifespan after its yield: one try block around delete_webhook() (webhook
\* mode), stop() and shutdown(); the first exception ends it.
Shutdown ==
  /\ pc = "serving"
  /\ \E del \in PtbOutcomes, stop \in PtbOutcomes, down \in PtbOutcomes :
       ServerStep("stopped", state, ShutdownCalls(entry, del, stop, down), <<>>)

\* Variant: a request without the header passes.
SecretRejected_HeaderOptional(token, header) == Truthy(token) /\ header # None /\ header # token

\* The secret-token check of the webhook route.
SecretRejected(token, header) == Truthy(token) /\ header # token

Response(request, status, ok, error) ==
  [request |-> request, status |-> status, ok |-> ok, error |-> error]

\* The webhook route, called with a header and a body: 403, 503, or a 200
\* answer; the update is handed to a background task that the route does
\* not await.  The route exists as soon as the module is loaded, so a
\* request can find app.state without the flag.
Webhook ==
  /\ pc \in {"startup", "serving"}
  /\ Len(sent) < MaxRequests
  /\ \E secret_token \in SecretHeaders, body \in RequestBodies :
       LET request == [no |-> Len(sent) + 1, secret_token |-> secret_token, body |-> body]
       IN IF SecretRejected(tool_call.TELEGRAM_WEBHOOK_SECRET_TOKEN, secret_token)
          THEN ServerStep(pc, state, <<>>, <<Response(request, 403, FALSE, <<"Invalid secret token">>)>>)
          ELSE IF ~Get(state, "bot_initialized", FALSE)
          THEN ServerStep(pc, state, <<>>,
                          <<Response(request, 503, FALSE, <<"Bot initialization in progress">>)>>)
          ELSE IF body = "invalid_json"
          THEN ServerStep(pc, state, <<>>, <<Response(request, 200, FALSE, <<"Invalid JSON">>)>>)
          ELSE IF body = "not_update"
          THEN ServerStep(pc, state, <<>>, <<Response(request, 200, FALSE, ExcText)>>)
          ELSE ServerStep(pc, state, <<Call("create_task", request, "pending")>>,
                          <<Response(request, 200, TRUE, <<>>)>>)

\* The background tasks that have not run yet.
PendingTasks ==
  {i \in 1..Len(calls) :
     /\ calls[i].fn = "create_task"
     /\ ~\E j \in 1..Len(calls) : calls[j].fn = "process_update" /\ calls[j].arg = calls[i].arg}

\* A background task runs ptb_app.process_update(update): the handler
\* registered with filters.TEXT & ~filters.COMMAND runs handle_message for
\* a text message that is not a command.
ProcessUpdate ==
  /\ pc \in {"serving", "stopped"}
  /\ \E i \in PendingTasks :
       ServerStep(pc, state,
                  <<Call("process_update", calls[i].arg, "done")>>
                  \o (IF calls[i].arg.body = "text"
                      THEN <<Call("handle_message", calls[i].arg, "done")>> ELSE <<>>),
                  <<>>)

NextServer ==
  \/ Startup
  \/ Webhook
  \/ ProcessUpdate
  \/ Shutdown

SpecServer == InitServer /\ [][NextServer]_vars

\* ------------------------------------ the summarizer node on any state
\* summarize_content called with a state of any content and error, next to
\* the runs of the compiled graph.
SummarizerContents == {None, <<>>, <<" ">>, <<"\n", " ">>, <<"x">>, <<" ", "x">>}
SummarizerErrors == {None, <<>>, <<"e">>}
SummarizerStates ==
  {[original_message |-> <<"https://", "x">>, url |-> <<"https://", "x">>,
    content_type |-> "Webpage", content |-> c, summary |-> <<>>, error |-> e,
    route_decision |-> "web_extractor", needs_web_fallback |-> FALSE] :
     c \in SummarizerContents, e \in SummarizerErrors}

InitSummarizer ==
  /\ pc = "summarizer_call"
  /\ entry = "direct"
  /\ text = <<"https://", "x">>
  /\ extracted_url = None
  /\ state \in SummarizerStates
  /\ final_state = NoDict
  /\ executed = <<>>
  /\ calls = <<>>
  /\ result = None
  /\ tool_call = NoDict
  /\ chunk_start = 0
  /\ sent = <<>>

\* The node called on its own: what it returns, and the summarization call
\* when it makes one.
CallSummarizer ==
  /\ pc = "summarizer_call"
  /\ \E sm \in SummaryOutcomes :
       /\ tool_call' = summarize_content(state, sm)
       /\ calls' = IF SummarizerCallsLLM(state)
                   THEN <<Call("SummarizeContent", state.content, sm)>> ELSE <<>>
  /\ pc' = "summarizer_returned"
  /\ UNCHANGED <<entry, text, extracted_url, state, final_state, executed, result,
                 chunk_start, sent>>

NextSummarizer == Next \/ CallSummarizer

SpecSummarizer == (Init \/ InitSummarizer) /\ [][NextSummarizer]_vars


\* ------------------------------------------------------------ properties
Ran(node) == \E i \in 1..Len(executed) : executed[i] = node
TimesRan(node) == Cardinality({i \in 1..Len(executed) : executed[i] = node})
LastNode == IF executed = <<>> THEN "none" ELSE executed[Len(executed)]
Called(fn) == \E i \in 1..Len(calls) : calls[i].fn = fn
\* run_agent has returned (the handler may have gone on to reply).
Returned == pc \in {"returned", "not_replying", "send_chunk", "done"}
Prefixed(err) == <<"Error: ">> \o err

C2_PostExtractionPriority ==
  (LastNode \in Extractors) =>
    IF state.needs_web_fallback THEN pc = "web_extractor"
    ELSE IF Truthy(state.error)
    THEN /\ (pc = END \/ Returned)
         /\ Returned => result \in {state.error, Prefixed(state.error)}
    ELSE IF ~IsBlank(state.content) THEN pc = "summarize_content"
    ELSE /\ (pc = END \/ Returned)
         /\ Returned => result = <<"Error: Agent finished without extracting content.">>

C2_Witness ==
  /\ Returned /\ LastNode = "web_extractor"
  /\ Truthy(state.error) /\ ~IsBlank(state.content)
  /\ ~Called("SummarizeContent")

\* C3: right after an extractor node exactly one of these holds: the
\* content is non-empty, the error is set, a fallback extraction is pending.
C3_ExactlyOneOutcome ==
  (LastNode \in Extractors) =>
    Cardinality({k \in {"content", "error", "fallback"} :
                   \/ k = "content" /\ Truthy(state.content)
                   \/ k = "error" /\ Truthy(state.error)
                   \/ k = "fallback" /\ state.needs_web_fallback}) = 1

\* C4: every extractor node runs at most once in a run, and the node that
\* runs after the web extractor is never an extractor.
C4_ExtractorsRunOnce ==
  /\ \A n \in Extractors : TimesRan(n) <= 1
  /\ LastNode = "web_extractor" => pc \notin Extractors
  /\ \A i \in 1..Len(executed) - 1 :
       executed[i] \in Extractors /\ executed[i + 1] \in Extractors
         => executed[i] = "youtube_extractor" /\ executed[i + 1] = "web_extractor"

C4_Witness ==
  /\ Returned
  /\ executed = <<"init", "llm_router", "youtube_extractor", "web_extractor",
                  "summarize_content">>

\* C5: an Unsupported answer of the classifier and a failed classifier call
\* both end the run with an error and without any extractor or summarizer,
\* and they leave different route decisions and different errors.
C5_UnsupportedAndRouterFailure ==
  \A i \in 1..Len(calls) :
    (calls[i].fn = "RouteRequest" /\ calls[i].ret \in {"Unsupported", "<raise>"}) =>
      /\ executed = <<"init", "llm_router">>
      /\ Len(calls) = 1
      /\ (pc = END \/ Returned)
      /\ calls[i].ret = "Unsupported" =>
           /\ state.route_decision = "__unsupported__"
           /\ state.error = UnsupportedError
           /\ Returned => result = Prefixed(UnsupportedError)
      /\ calls[i].ret = "<raise>" =>
           /\ state.route_decision = "__error__"
           /\ state.error = RouterFailedError
           /\ Returned => result = Prefixed(RouterFailedError)

C5_Witness ==
  /\ Returned /\ Len(calls) = 1 /\ calls[1].fn = "RouteRequest"
  /\ calls[1].ret = "<raise>" /\ result = Prefixed(RouterFailedError)

\* C6: the summarization call is made on non-blank content only; when it
\* succeeds the run ends with a non-empty summary as its result and no
\* error, when it raises the run ends with an empty summary and the
\* summarization error; a non-empty summary and an error never coexist.
C6_SummarizerOutcome ==
  /\ \A i \in 1..Len(calls) :
       calls[i].fn = "SummarizeContent" =>
         /\ ~IsBlank(calls[i].arg)
         /\ calls[i].ret.call = "ok" =>
              /\ Truthy(state.summary) /\ state.error = None
              /\ Returned => result = state.summary
         /\ calls[i].ret.call = "raise" =>
              /\ state.summary = <<>> /\ state.error = SummarizationFailedError
              /\ Returned => result = Prefixed(SummarizationFailedError)
  /\ Ran("init") => ~(Truthy(state.summary) /\ Truthy(state.error))

C6_Witness ==
  /\ Returned /\ Called("SummarizeContent")
  /\ calls[Len(calls)].ret.call = "raise"
  /\ result = Prefixed(SummarizationFailedError)

\* C7: run_agent returns the summary when the run produced a non-empty
\* one, and otherwise a string that starts with "Error:"; it never returns
\* None or the empty string.
C7_ResultIsSummaryOrError ==
  Returned =>
    /\ result # None /\ result # <<>>
    /\ IF Truthy(state.summary) THEN result = state.summary
       ELSE StartsWithError(result)

C7_Witness ==
  /\ Returned /\ Truthy(state.summary) /\ result = state.summary
  /\ ~StartsWithError(result)

\* C8: the URL init stores is the first match of the URL pattern in the
\* message, the no-URL error is raised exactly when there is no match, and
\* when handle_message found a URL, init stores that same URL.
C8_InitUrlIsRegexMatch ==
  (pc = "llm_router") =>
    LET m == URLRegexSearch(text)
    IN /\ state.url = (IF m = None THEN <<>> ELSE m)
       /\ (state.error = NoUrlError) <=> (m = None)
       /\ entry = "bot" => state.url = extracted_url

\* C9: when the PDF parses to empty or whitespace-only text, the run ends
\* with the "PDF extraction returned no text." error and the summarizer
\* never runs.
C9_EmptyPdfIsPdfError ==
  \A i \in 1..Len(calls) :
    (/\ calls[i].fn = "get_pdf_text"
     /\ calls[i].ret.download = "ok" /\ calls[i].ret.pdf_header
     /\ calls[i].ret.parse = "ok" /\ IsBlank(calls[i].ret.text)) =>
      /\ (pc = END \/ Returned)
      /\ ~Ran("summarize_content")
      /\ Returned => result = Prefixed(PdfNoTextError)

\* C10: when the PDF download fails or the bytes do not parse, the PDF node
\* ends with the error set and the content empty, the run ends with an
\* error, and the summarizer is never given the failure message.
C10_PdfFailureIsError ==
  \A i \in 1..Len(calls) :
    (/\ calls[i].fn = "get_pdf_text"
     /\ \/ calls[i].ret.download = "RequestException"
        \/ calls[i].ret.parse \in {"FitzError", "Exception"}) =>
      /\ LastNode = "pdf_extractor" => (Truthy(state.error) /\ state.content = <<>>)
      /\ (pc = END \/ Returned)
      /\ ~Called("SummarizeContent")
      /\ Returned => StartsWithError(result)

\* C11: for a Twitter/X status URL, when the fetch of the root tweet fails
\* the Twitter node reports an error and the run ends with an error result
\* without the summarizer running; when the root tweet is fetched (with a
\* text) but the conversation fetch fails with a request exception, another
\* exception or a non-success status, the node reports no error, its content
\* is the root tweet alone, and the run goes on to the summarizer.
ConvFailures == {"RequestException", "Exception", "not_success"}
RootOnly(tw) == <<"Tweet by @user (time):", "\n">> \o Strip(tw.tweet.text) \o <<"\n", "---">>

C11_TwitterFetchFailures ==
  \A i \in 1..Len(calls) :
    (calls[i].fn = "fetch_tweet_thread" /\ calls[i].ret.api_key /\ calls[i].ret.id_match) =>
      LET tw == calls[i].ret
      IN /\ tw.main # "ok" =>
              /\ StartsWithError(state.error) /\ state.content = <<>>
              /\ (pc = END \/ Returned)
              /\ ~Ran("summarize_content")
              /\ Returned => StartsWithError(result)
         /\ (tw.main = "ok" /\ tw.tweet.text # None /\ tw.conv \in ConvFailures) =>
              /\ state.content = RootOnly(tw)
              /\ LastNode = "twitter_extractor" => (state.error = None /\ pc = "summarize_content")
              /\ Ran("summarize_content")
                   \/ (LastNode = "twitter_extractor" /\ pc = "summarize_content")
              /\ \A j \in 1..Len(calls) :
                   calls[j].fn = "SummarizeContent" => calls[j].arg = RootOnly(tw)

C11_Witness ==
  /\ Returned /\ Called("SummarizeContent") /\ Called("fetch_tweet_thread")
  /\ \E i \in 1..Len(calls) :
       /\ calls[i].fn = "fetch_tweet_thread"
       /\ calls[i].ret.main = "ok" /\ calls[i].ret.tweet.conversationId = 2
       /\ calls[i].ret.tweet.text = <<"x">>
       /\ calls[i].ret.conv = "Exception"
  /\ result = state.summary

\* C12: after the YouTube tool reports "youtube_fallback_failed" the next
\* node is the web extractor, entered with no error, and it runs exactly
\* once and leaves the fallback flag false; the result of the run is the
\* result of a run that the router sends straight to the web extractor and
\* that gets the same Tavily and summarizer outcomes, and it never carries
\* the YouTube failure.
DirectWebResult(msg, tav, sm) ==
  LET st0 == [original_message |-> msg]
      st1 == Merge(st0, init_state(st0))
      st2 == Merge(st1, llm_router(st1, "WebpageExtractor"))
      web == get_web_content(st2, tav)
      st3 == Merge(st2, web)
      label == Follow("web_extractor", should_summarize(st3))
  IN IF label = "summarize_content"
     THEN RunAgentResult(summarize_content(st3, sm), FALSE)
     ELSE RunAgentResult(web, label = "exception")

YoutubeFailed ==
  \E i \in 1..Len(calls) :
    /\ calls[i].fn = "fetch_youtube_content_with_fallbacks"
    /\ calls[i].ret.type = "dict" /\ calls[i].ret.error = "youtube_fallback_failed"

C12_YoutubeFallbackToWeb ==
  YoutubeFailed =>
    /\ LastNode = "youtube_extractor" =>
         (pc = "web_extractor" /\ state.error = None /\ state.content = <<>>)
    /\ LastNode # "youtube_extractor" =>
         /\ TimesRan("web_extractor") = 1 /\ TimesRan("youtube_extractor") = 1
         /\ \E k \in 1..(Len(executed) - 1) :
              executed[k] = "youtube_extractor" /\ executed[k + 1] = "web_extractor"
         /\ ~state.needs_web_fallback
         /\ pc # "exception"
    /\ Returned =>
         /\ \E i \in 1..Len(calls) :
              /\ calls[i].fn = "run_tavily_tool"
              /\ IF Called("SummarizeContent")
                 THEN result = DirectWebResult(text, calls[i].ret, calls[Len(calls)].ret)
                 ELSE \A sm \in SummaryOutcomes :
                        result = DirectWebResult(text, calls[i].ret, sm)
         /\ \A k \in 1..Len(result) :
              result[k] \notin {"YouTube tool encountered an error: ", "youtube_fallback_failed"}

C12_Witness ==
  /\ YoutubeFailed /\ Returned
  /\ executed = <<"init", "llm_router", "youtube_extractor", "web_extractor",
                  "summarize_content">>
  /\ calls[Len(calls)].ret.call = "ok"
  /\ result = state.summary

\* C13: for a URL with a video id, fetch_youtube_content_with_fallbacks
\* returns the "youtube_fallback_failed" dictionary exactly when no source
\* gave a title, a description or a transcript; when one of the three was
\* obtained it returns a non-empty string, whichever attempts failed.
ToolReturned == pc = "tool_returned"
Obtained(yt) ==
  \/ Truthy(yt.bs_title)
  \/ Truthy(yt.bs_desc) \/ Truthy(yt.dlp_desc) \/ (yt.api_key /\ Truthy(yt.api_desc))
  \/ Truthy(yt.transcript)
FallbackFailure(ret) == ret.type = "dict" /\ ret.error = "youtube_fallback_failed"

C13_YoutubeFailsIffNothingObtained ==
  (ToolReturned /\ tool_call.outcome.video_id) =>
    /\ FallbackFailure(tool_call.ret) <=> ~Obtained(tool_call.outcome)
    /\ Obtained(tool_call.outcome) =>
         (tool_call.ret.type = "str" /\ ~IsBlank(tool_call.ret.val))

C13_Witness ==
  /\ ToolReturned
  /\ tool_call.outcome.dlp_err /\ tool_call.outcome.api_err
  /\ tool_call.outcome.bs_title = None /\ tool_call.outcome.bs_desc = None
  /\ tool_call.outcome.transcript = <<"t">>
  /\ tool_call.ret.type = "str"

\* C14: the description in the tool's output is the longest of the
\* descriptions its sources returned, and among several of the greatest
\* length the one of the source tried first (page parse, yt-dlp, Data API).
Candidates(yt) ==
  Opt(Truthy(yt.bs_desc), yt.bs_desc)
  \o Opt(Truthy(yt.dlp_desc), yt.dlp_desc)
  \o Opt(Truthy(yt.api_desc), yt.api_desc)
Contains(s, sub) ==
  \E k \in 0..(Len(s) - Len(sub)) : SubSeq(s, k + 1, k + Len(sub)) = sub
DescriptionPart(d) ==
  <<"**Video Description:**", "\n", "<code fence>", "\n">> \o d \o <<"\n", "<code fence>">>

C14_LongestDescriptionFirstWins ==
  (ToolReturned /\ tool_call.outcome.video_id) =>
    LET cands == Candidates(tool_call.outcome)
    IN \A i \in 1..Len(cands) :
         (/\ \A j \in 1..Len(cands) : Len(cands[j]) <= Len(cands[i])
          /\ \A j \in 1..(i - 1) : Len(cands[j]) < Len(cands[i])) =>
           /\ tool_call.ret.type = "str"
           /\ Contains(tool_call.ret.val, DescriptionPart(cands[i]))

C14_Witness ==
  /\ ToolReturned
  /\ tool_call.outcome.bs_desc = <<"b">>
  /\ tool_call.outcome.dlp_desc = <<"d", "d">>
  /\ tool_call.outcome.api_desc = <<"a", "a">>
  /\ Contains(tool_call.ret.val, DescriptionPart(<<"d", "d">>))

\* C15: when the requested tweet opens a conversation (its conversationId
\* is its own id) for which the API lists further tweets, the content of the
\* Twitter node holds those tweets as well as the requested one, and the
\* requested tweet once.
Count(s, piece) == Cardinality({k \in 1..Len(s) : s[k] = piece})
OtherTweets(tw) == FilterOutId(tw.thread, TweetId)

C15_RootTweetGetsItsThread ==
  \A i \in 1..Len(calls) :
    (/\ calls[i].fn = "fetch_tweet_thread"
     /\ calls[i].ret.main = "ok" /\ calls[i].ret.conv = "ok"
     /\ calls[i].ret.tweet.conversationId = TweetId
     /\ calls[i].ret.tweet.text = <<"x">>
     /\ OtherTweets(calls[i].ret) # <<>>) =>
      /\ \A k \in 1..Len(OtherTweets(calls[i].ret)) :
           Contains(state.content, OtherTweets(calls[i].ret)[k].text)
      /\ Count(state.content, "x") = 1

\* C16: when the response to the download of a URL that ends in ".pdf" has
\* a Content-Type other than application/pdf and its bytes are a PDF with
\* text, the PDF node does not fail on the header: it reports no error and
\* its content is the text parsed from the bytes.
EndsInPdf(url) == Len(url) > 0 /\ url[Len(url)] = ".pdf"

C16_ContentTypeIsAdvisory ==
  \A i \in 1..Len(calls) :
    (/\ calls[i].fn = "get_pdf_text" /\ EndsInPdf(calls[i].arg)
     /\ calls[i].ret.download = "ok" /\ ~calls[i].ret.pdf_header
     /\ calls[i].ret.parse = "ok" /\ ~IsBlank(calls[i].ret.text)) =>
      /\ state.error # PdfNotPdfError
      /\ LastNode = "pdf_extractor" =>
           (state.error = None /\ state.content = Strip(calls[i].ret.text))

\* C17: for a message whose URL ends in ".pdf", once the router has run the
\* route is the PDF extractor, whatever RouteRequest returned.
C17_PdfUrlRoutesToPdf ==
  (Ran("llm_router") /\ EndsInPdf(state.url)) =>
    /\ state.route_decision = "pdf_extractor"
    /\ LastNode = "llm_router" => pc = "pdf_extractor"

\* C18: in a run routed to the web extractor whose Tavily call fails, the
\* browser screenshot is taken as the fallback and the run ends without an
\* error and with an empty summary: the result is not an error string.
PrimaryWebFailed ==
  /\ Len(executed) >= 3 /\ executed[3] = "web_extractor"
  /\ URLRegexSearch(text) = state.url
  /\ \E i \in 1..Len(calls) :
       calls[i].fn = "run_tavily_tool" /\ calls[i].ret.call \in {"none", "raise", "empty"}

C18_ScreenshotOnlyEndsInDone ==
  (PrimaryWebFailed /\ Returned) =>
    /\ Called("get_page_screenshot_selenium")
    /\ state.error = None /\ state.summary = <<>>
    /\ ~StartsWithError(result)

\* C19: handle_message calls reply_text only after a run that produced a
\* summary, and what it sends is that summary; after a run that ended
\* without one (the no-URL, routing, extraction or summarization error, or
\* an exception in the graph) the handler ends without a reply, so no
\* error string is ever sent.
C19_RepliesOnlyWithSummary ==
  /\ sent # <<>> =>
       /\ entry = "bot" /\ Truthy(state.summary) /\ result = state.summary
  /\ \A k \in 1..Len(sent) :
       /\ ~StartsWithError(sent[k].text)
       /\ Contains(HtmlEscape(state.summary), sent[k].text)
            \/ Contains(state.summary, sent[k].text)
  /\ (Returned /\ ~Truthy(state.summary)) =>
       /\ StartsWithError(result)
       /\ pc \in {"returned", "not_replying"}
       /\ sent = <<>>

C19_Witness ==
  /\ pc = "not_replying" /\ sent = <<>>
  /\ LastNode = "summarize_content"
  /\ result = Prefixed(SummarizationFailedError)

\* C20: no reply_text call carries more than MAX_LEN (4096) characters, and
\* when the handler has finished and every call succeeded, the texts sent,
\* concatenated in the order of the calls, are the HTML-escaped result.
RECURSIVE ConcatTexts(_)
ConcatTexts(msgs) ==
  IF msgs = <<>> THEN <<>> ELSE msgs[1].text \o ConcatTexts(Tail(msgs))
AllSent == \A k \in 1..Len(sent) : sent[k].ok

C20_ChunksBoundedAndComplete ==
  /\ \A k \in 1..Len(sent) : Len(sent[k].text) <= 4096
  /\ (pc = "done" /\ AllSent) => ConcatTexts(sent) = HtmlEscape(result)

C20_Witness ==
  /\ pc = "done" /\ AllSent /\ Len(sent) = 3
  /\ result[Len(result)] = "&"
  /\ Len(sent[3].text) = 4

\* C21: whenever one of the two browser functions has returned, no session
\* it opened is still open: on every path on which webdriver.Remote gave a
\* driver, driver.quit() was called, once, before the return.
C21_SessionClosedOnReturn ==
  pc = "tool_returned" =>
    /\ tool_call.open = 0
    /\ tool_call.ret # Pending
    /\ tool_call.driver =>
         Cardinality({k \in 1..Len(tool_call.log) : tool_call.log[k] = "quit"}) = 1

C21_Witness ==
  /\ pc = "tool_returned"
  /\ tool_call.fn = "get_page_content_selenium"
  /\ tool_call.ret = JavaScriptError
  /\ tool_call.driver /\ tool_call.open = 0

\* C22: when the tool of an extractor node fails with an exception (the
\* Tavily call of the web and LinkedIn tools, the PDF download or parse, the
\* request for the main tweet or a tweet without text), the node returns
\* empty content and a non-empty error, and no node lets an exception
\* escape into the graph.
ToolFailedByException(call) ==
  \/ call.fn = "run_tavily_tool" /\ call.ret.call = "raise"
  \/ call.fn = "scrape_linkedin_post" /\ call.ret.is_post_url /\ call.ret.tav.call = "raise"
  \/ call.fn = "get_pdf_text"
       /\ (call.ret.download = "RequestException" \/ call.ret.parse \in {"FitzError", "Exception"})
  \/ call.fn = "fetch_tweet_thread" /\ call.ret.api_key /\ call.ret.id_match
       /\ (call.ret.main \in {"RequestException", "Exception"}
           \/ (call.ret.main = "ok" /\ call.ret.tweet.text = None))

C22_ToolExceptionBecomesNodeError ==
  /\ pc # "exception"
  /\ (LastNode \in Extractors /\ ToolFailedByException(calls[Len(calls)])) =>
       (state.content = <<>> /\ Truthy(state.error))

\* C23: a run executes at most five nodes (init, the router, at most two
\* extractors, the summarizer), fewer than the recursion limit of 15; once
\* the graph has ended no node executes; and as long as the graph has not
\* ended the next step is the execution of the node that is due, so that a
\* run in which every external call returns ends after at most five steps.
GraphEnded == pc \in {END, "exception"} \/ Returned
NodeShape ==
  /\ Len(executed) <= 5 /\ Len(executed) < RecursionLimit
  /\ \A k \in 1..Len(executed) :
       /\ k = 1 <=> executed[k] = "init"
       /\ k = 2 <=> executed[k] = "llm_router"
       /\ executed[k] = "summarize_content" => k = Len(executed)
  /\ Cardinality({k \in 1..Len(executed) : executed[k] \in Extractors}) <= 2

GraphNodes == {"init", "llm_router", "summarize_content"} \cup Extractors

C23_TerminatesWithinFiveNodes ==
  /\ [](NodeShape /\ (GraphEnded \/ pc \in {"handle_message", "ignored"} \cup GraphNodes))
  /\ [][(pc \in GraphNodes => executed' = Append(executed, pc))
        /\ (GraphEnded => executed' = executed)]_vars

C23_Witness ==
  /\ Returned /\ Len(executed) = 5
  /\ executed[3] = "youtube_extractor" /\ executed[4] = "web_extractor"

\* Remote requests issued by fetch_tweet_thread: none before the API key and
\* the tweet id are known, one for the main tweet, and one more for the
\* conversation search when the main tweet names another conversation.
TwitterRequests(tw) ==
  IF ~tw.api_key \/ ~tw.id_match THEN 0
  ELSE IF tw.main = "ok" /\ tw.tweet.conversationId # 0 /\ tw.tweet.conversationId # TweetId
  THEN 2 ELSE 1

\* Remote requests issued by fetch_youtube_content_with_fallbacks, from what
\* it returned: none without a video id; otherwise the two page fetches of
\* fetch_youtube_details_bs, the yt-dlp query and the transcript listing all
\* run whatever the earlier ones returned (the Data API request, made only
\* with an API key, is not counted).
YoutubeRequests(ret) ==
  IF ret.type = "dict" /\ ret.error = "Could not extract YouTube video ID from URL" THEN 0
  ELSE 4

\* Remote requests issued by run_tavily_tool: one search or extract call
\* once the client exists and the arguments are accepted.
TavilyRequests(mode, arg, tav) ==
  IF ~tav.client \/ (mode = "search" /\ arg = <<>>) THEN 0 ELSE 1

\* Remote requests behind one logged external call of a node.
RemoteRequests(call) ==
  CASE call.fn = "fetch_tweet_thread" -> TwitterRequests(call.ret)
    [] call.fn = "fetch_youtube_content_with_fallbacks" -> YoutubeRequests(call.ret)
    [] call.fn = "run_tavily_tool" -> TavilyRequests("extract", call.arg, call.ret)
    [] call.fn = "scrape_linkedin_post" ->
         IF call.ret.is_post_url THEN TavilyRequests("search", call.arg, call.ret.tav) ELSE 0
    [] OTHER -> 1

\* C24: every node performs at most one blocking remote call before it
\* returns: no logged external call of a node stands for more than one
\* remote request.
C24_OneRemoteCallPerNode ==
  \A k \in 1..Len(calls) : RemoteRequests(calls[k]) <= 1

\* A run of more than one blank line: three line breaks with nothing but
\* whitespace between them.
BlankRun(s) ==
  \E i \in 1..Len(s) :
    /\ s[i] = "\n"
    /\ Cardinality({m \in i..WsRunEnd(s, i) : s[m] = "\n"}) >= 3

\* The key points that are rendered, trimmed.
RECURSIVE TrimmedPoints(_)
TrimmedPoints(points) ==
  IF points = <<>> THEN <<>>
  ELSE (IF points[1] # <<>> THEN <<Strip(points[1])>> ELSE <<>>) \o TrimmedPoints(Tail(points))

RECURSIVE Bullets(_)
Bullets(points) ==
  IF points = <<>> THEN <<>>
  ELSE <<"-", " ">> \o points[1] \o <<"\n">> \o Bullets(Tail(points))

\* The layout: title line, blank line, key-points section when there are
\* points, blank line, summary section.
Layout(title, points, summary) ==
  <<"#", " ">> \o title \o <<"\n", "\n">>
  \o (IF points = <<>> THEN <<>>
      ELSE <<"## Key Points:", "\n">> \o Bullets(points) \o <<"\n">>)
  \o <<"## Summary:", "\n">> \o summary

\* The summarizer node has just rendered the answer of a successful
\* summarization call.
Rendered ==
  /\ LastNode = "summarize_content" /\ calls # <<>>
  /\ calls[Len(calls)].fn = "SummarizeContent" /\ calls[Len(calls)].ret.call = "ok"

\* C25: a successful summarization is rendered as the title line, a blank
\* line, the key-points header with one "- point" line per point (trimmed)
\* and a blank line, omitted when there are no points, then the summary
\* header and the trimmed summary; and the output never contains a run of
\* more than one blank line.
C25_SummaryLayout ==
  Rendered =>
    LET sm == calls[Len(calls)].ret
        title == IF sm.title = <<>> THEN <<"Summary">> ELSE sm.title
        summary == IF sm.concise_summary = <<>> THEN <<"No summary generated.">>
                   ELSE Strip(sm.concise_summary)
    IN /\ ~BlankRun(state.summary)
       /\ state.error = None
       /\ ~BlankRun(summary) =>
            state.summary = Layout(title, TrimmedPoints(sm.key_points), summary)
       /\ BlankRun(summary) =>
            LET head == Layout(title, TrimmedPoints(sm.key_points), <<>>)
            IN /\ Len(state.summary) > Len(head)
               /\ SubSeq(state.summary, 1, Len(head)) = head

C25_Witness ==
  /\ Rendered
  /\ Len(calls[Len(calls)].ret.key_points) = 3
  /\ calls[Len(calls)].ret.concise_summary = <<" ", "s", "\n">>
  /\ state.summary = <<"#", " ", "T", "\n", "\n", "## Key Points:", "\n", "-", " ", "p", "\n",
                       "-", " ", "q", "\n", "\n", "## Summary:", "\n", "s">>

\* C26: called with content that is missing, empty or whitespace-only, the
\* summarizer node makes no summarization call and returns an empty
\* summary, with the error of the state when there is one and the generic
\* nothing-to-summarize error otherwise; and in the runs of the compiled
\* graph the summarizer is only ever due with non-blank content and no
\* error.
C26_BlankContentIsNotSummarized ==
  /\ (pc = "summarizer_returned" /\ (~Truthy(state.content) \/ IsBlank(state.content))) =>
       /\ calls = <<>>
       /\ tool_call.summary = <<>>
       /\ tool_call.error = IF Truthy(state.error) THEN state.error
                            ELSE NothingToSummarizeError
  /\ pc = "summarize_content" =>
       /\ Truthy(state.content) /\ ~IsBlank(state.content)
       /\ ~Truthy(state.error)

C26_Witness ==
  /\ pc = "summarizer_returned" /\ state.content = <<"\n", " ">> /\ state.error = None
  /\ tool_call.error = NothingToSummarizeError /\ calls = <<>>

Index(fn) == {i \in 1..Len(calls) : calls[i].fn = fn}

\* C27: once the shutdown code has run, in polling mode, in webhook mode
\* and with neither, and whatever delete_webhook() did, ptb_app.stop() and
\* after it ptb_app.shutdown() have both been called.
C27_StopThenShutdown ==
  pc = "stopped" =>
    \E i \in Index("stop"), j \in Index("shutdown") : i < j

\* The calls logged for the request numbered n.
CallsFor(fn, n) == {i \in Index(fn) : calls[i].arg.no = n}

\* C28: an update is handed to the bot application only for a request that
\* passed the secret-token check (when a token is configured) after the
\* initialisation had completed; a request answered 403 or 503, or whose
\* body is not valid JSON, never makes handle_message run; and a request
\* is answered ok exactly when its update was dispatched, exactly once,
\* the answer being given while the background task may still be pending.
C28_WebhookDispatch ==
  \A n \in 1..Len(sent) :
    LET request == sent[n].request
        token == tool_call.TELEGRAM_WEBHOOK_SECRET_TOKEN
        passed == token \in {None, <<>>} \/ request.secret_token = token
    IN /\ request.no = n
       /\ CallsFor("create_task", n) # {} =>
            /\ passed
            /\ pc \in {"serving", "stopped"} /\ state.bot_initialized
            /\ \E i \in Index("start") : i < CHOOSE c \in CallsFor("create_task", n) : TRUE
       /\ (sent[n].status \in {403, 503} \/ request.body = "invalid_json") =>
            /\ ~sent[n].ok
            /\ CallsFor("create_task", n) = {} /\ CallsFor("process_update", n) = {}
            /\ CallsFor("handle_message", n) = {}
       /\ sent[n].status = 403 <=> ~passed
       /\ Cardinality(CallsFor("create_task", n)) = IF sent[n].ok THEN 1 ELSE 0
       /\ Cardinality(CallsFor("process_update", n)) <= Cardinality(CallsFor("create_task", n))
       /\ Cardinality(CallsFor("handle_message", n)) <= Cardinality(CallsFor("process_update", n))
       /\ sent[n].ok => sent[n].status = 200

\* A request with the right secret was answered ok while its task is still
\* pending, after a request without the header was answered 403.
C28_Witness ==
  /\ Len(sent) = 2
  /\ tool_call.TELEGRAM_WEBHOOK_SECRET_TOKEN = SecretToken
  /\ sent[1].status = 403 /\ sent[1].request.secret_token = None
  /\ sent[2].ok /\ sent[2].request.body = "text"
  /\ PendingTasks # {}

\* C29: needs_web_fallback is true only right after the YouTube extractor
\* (false after init, the router and the web, PDF, Twitter and LinkedIn
\* extractors and from then on), the label an edge function returns is
\* always in the edge map of the node that just ran, and the graph never
\* takes an undefined edge.
C29_FallbackFlagOnlyAfterYoutube ==
  /\ Get(state, "needs_web_fallback", FALSE) =>
       (LastNode = "youtube_extractor" /\ pc = "web_extractor")
  /\ pc # "exception"
  /\ (executed # <<>> /\ LastNode \in Extractors) =>
       /\ should_summarize(state) \in DOMAIN EdgeMap(LastNode)
       /\ (pc \in GraphNodes \cup {END}) => pc = EdgeMap(LastNode)[should_summarize(state)]

C29_Witness ==
  /\ Len(executed) = 4 /\ executed[3] = "youtube_extractor" /\ executed[4] = "web_extractor"
  /\ ~state.needs_web_fallback /\ should_summarize(state) = END /\ pc = END

\* What the chat received, HTML-escaped so that replies of both kinds
\* compare: an HTML reply shows the text its chunk escapes, a plain reply
\* shows its text as it is.
RECURSIVE DeliveredEscaped(_)
DeliveredEscaped(msgs) ==
  IF msgs = <<>> THEN <<>>
  ELSE (IF ~msgs[1].ok THEN <<>>
        ELSE IF msgs[1].parse_mode = "HTML" THEN msgs[1].text
        ELSE HtmlEscape(msgs[1].text))
       \o DeliveredEscaped(Tail(msgs))

\* Reply k failed as HTML and reply k + 1 is its plain-text fallback.
FellBack(k) ==
  /\ k < Len(sent) /\ sent[k].parse_mode = "HTML" /\ ~sent[k].ok
  /\ sent[k + 1].parse_mode = None

\* C30: when the HTML send of a chunk fails and its plain-text fallback is
\* sent, the fallback carries exactly the text the failed chunk stood for,
\* so that the chat receives every character of the summary once and in
\* order; and after a chunk that failed both ways nothing more is sent.
C30_FallbackCoversFailedChunk ==
  /\ \A k \in 1..Len(sent) :
       FellBack(k) =>
         /\ sent[k + 1].ok => HtmlEscape(sent[k + 1].text) = sent[k].text
         /\ ~sent[k + 1].ok => (k + 1 = Len(sent) /\ pc = "done")
  /\ (pc = "done" /\ sent # <<>> /\ sent[Len(sent)].ok) =>
       DeliveredEscaped(sent) = HtmlEscape(result)

====
